---- MODULE Spec2Model ----
(***************************************************************************)
(* Model of the Pulumi pipeline module in its two revisions:               *)
(*   "fields" : src/pulumi/src/pulumi/main.py  (storage settings and stack *)
(*              name are kept in fields of the Pulumi object)              *)
(*   "params" : src/src/pulumi/main.py         (everything is a parameter) *)
(*                                                                         *)
(* A container is a value: every with_* call returns a new value.  The     *)
(* exec steps of a container are run by the runtime when the container (or *)
(* its stdout) is awaited, in pipeline order, each step of one invocation  *)
(* at most once.                                                           *)
(***************************************************************************)
EXTENDS Integers, Sequences, FiniteSets, TLC

\* Total number of public-function invocations started in one behaviour.
MaxCalls == 2

\* Python's None.
None == "None"

Revisions == {"fields", "params"}

\* The asyncio tasks that may run a public function of one Pulumi object.
Tasks == {"t1", "t2"}

----------------------------------------------------------------------------
(* Container values and the with_* builders of the runtime API.            *)

\* A mapping with no entries (an empty environment / file system).
Empty == [x \in {} |-> None]

\* m extended or overwritten at key k.
Put(m, k, v) == [x \in (DOMAIN m) \cup {k} |-> IF x = k THEN v ELSE m[x]]

\* dag.container().from_(image)
from_(image) ==
    [image |-> image, env |-> Empty, secrets |-> Empty, files |-> Empty,
     dirs |-> Empty, caches |-> Empty, workdir |-> "/", execs |-> <<>>]

with_env_variable(ctr, name, value) == [ctr EXCEPT !.env = Put(@, name, value)]

with_secret_variable(ctr, name, secret) ==
    [ctr EXCEPT !.secrets = Put(@, name, secret)]

with_new_file(ctr, path, contents) == [ctr EXCEPT !.files = Put(@, path, contents)]

\* The directory is written at path: its entries become files below path,
\* replacing files of the same name, and the directory is recorded at path.
with_directory(ctr, path, dir) ==
    [ctr EXCEPT
       !.dirs = Put(@, path, dir.id),
       !.files = [p \in (DOMAIN @) \cup {path \o "/" \o e : e \in DOMAIN dir.entries} |->
                    IF \E e \in DOMAIN dir.entries : p = path \o "/" \o e
                    THEN dir.entries[CHOOSE e \in DOMAIN dir.entries : p = path \o "/" \o e]
                    ELSE @[p]]]

with_workdir(ctr, path) == [ctr EXCEPT !.workdir = path]

with_mounted_cache(ctr, path, volume) == [ctr EXCEPT !.caches = Put(@, path, volume)]

\* The names of the variables (plain and secret) a container carries.
VarNames(ctr) == (DOMAIN ctr.env) \cup (DOMAIN ctr.secrets)

\* An exec step is appended to the pipeline; it will run with the variables
\* and working directory the container has at this point.
with_exec(ctr, args) ==
    [ctr EXCEPT !.execs = Append(@, [args |-> args, vars |-> VarNames(ctr),
                                      workdir |-> ctr.workdir])]

\* Directory.without_directory(name)
without_directory(dir, name) ==
    [id |-> dir.id, entries |-> [e \in (DOMAIN dir.entries) \ {name} |-> dir.entries[e]]]

----------------------------------------------------------------------------
(* The authentication context builder.                                     *)

\* An absent Directory argument (None where a Directory is expected).
NoDirectory == [id |-> None, entries |-> Empty]

\* Truth value of `if azure_cli_path:` -- a Directory object or None.
CliPresent(azure_cli_path) == azure_cli_path # NoDirectory

\* Truth value of `if azure_oidc_token:`.  In revision "fields" the token is
\* a str, and the empty string is false; in revision "params" it is a Secret
\* object, which is true whenever it is not None.
TokenPresent(revision, azure_oidc_token) ==
    IF revision = "fields"
    THEN azure_oidc_token # None /\ azure_oidc_token # ""
    ELSE azure_oidc_token # None

\* `azure_oidc_token.plaintext` without a call: the bound method, not the
\* text of the secret.
PlaintextAttr(secret) == "<bound method Secret.plaintext of " \o secret \o ">"

\* f"azblob://{container_name}?storage_account={storage_account_name}"
BlobAddress(container_name, storage_account_name) ==
    "azblob://" \o container_name \o "?storage_account=" \o storage_account_name

\* Pulumi.build_container of revision "fields".
build_container(self, infrastructure_path) ==
    LET filtered_source == without_directory(infrastructure_path, "venv")
        c1 == from_(self.pulumi_image)
        c2 == with_directory(c1, "/infra", filtered_source)
        c3 == with_workdir(c2, "/infra")
        c4 == with_exec(c3, <<"pip", "install", "uv">>)
        c5 == with_mounted_cache(c4, self.cache_dir, "python-313")
    IN  with_exec(c5, <<"pulumi", "install">>)

\* A CLI branch that mounts the directory and forgets the marker variable.
CliBranch_NoMarker(ctr, azure_cli_path) ==
    IF CliPresent(azure_cli_path)
    THEN with_directory(ctr, "/root/.azure", azure_cli_path)
    ELSE ctr

\* The `if azure_cli_path:` branch, the same in both revisions.
CliBranch(ctr, azure_cli_path) ==
    IF CliPresent(azure_cli_path)
    THEN with_env_variable(with_directory(ctr, "/root/.azure", azure_cli_path),
                           "AZURE_AUTH", "az")
    ELSE ctr

\* An OIDC branch that sets the client-id and tenant-id variables only for
\* values that were passed.
OidcBranchFields_CheckedIds(ctr, azure_oidc_token, azure_client_id, azure_tenant_id) ==
    IF TokenPresent("fields", azure_oidc_token)
    THEN LET oidc_token_path == "/root/.azure/oidc_token"
             c1 == with_new_file(ctr, oidc_token_path, azure_oidc_token)
             c2 == with_env_variable(c1, "ARM_OIDC_TOKEN", azure_oidc_token)
             c3 == with_env_variable(c2, "AZURE_OIDC_TOKEN", azure_oidc_token)
             c4 == with_env_variable(c3, "ARM_USE_OIDC", "true")
             c5 == with_env_variable(c4, "AZURE_USE_OIDC", "true")
             c7 == IF azure_client_id = None THEN c5
                   ELSE with_env_variable(with_env_variable(c5, "ARM_CLIENT_ID", azure_client_id),
                                          "AZURE_CLIENT_ID", azure_client_id)
             c9 == IF azure_tenant_id = None THEN c7
                   ELSE with_env_variable(with_env_variable(c7, "ARM_TENANT_ID", azure_tenant_id),
                                          "AZURE_TENANT_ID", azure_tenant_id)
         IN  with_env_variable(c9, "AZURE_FEDERATED_TOKEN_FILE", oidc_token_path)
    ELSE ctr

\* The `if azure_oidc_token:` branch of revision "fields".
OidcBranchFields(ctr, azure_oidc_token, azure_client_id, azure_tenant_id) ==
    IF TokenPresent("fields", azure_oidc_token)
    THEN LET oidc_token_path == "/root/.azure/oidc_token"
             c1 == with_new_file(ctr, oidc_token_path, azure_oidc_token)
             c2 == with_env_variable(c1, "ARM_OIDC_TOKEN", azure_oidc_token)
             c3 == with_env_variable(c2, "AZURE_OIDC_TOKEN", azure_oidc_token)
             c4 == with_env_variable(c3, "ARM_USE_OIDC", "true")
             c5 == with_env_variable(c4, "AZURE_USE_OIDC", "true")
             c6 == with_env_variable(c5, "ARM_CLIENT_ID", azure_client_id)
             c7 == with_env_variable(c6, "AZURE_CLIENT_ID", azure_client_id)
             c8 == with_env_variable(c7, "ARM_TENANT_ID", azure_tenant_id)
             c9 == with_env_variable(c8, "AZURE_TENANT_ID", azure_tenant_id)
         IN  with_env_variable(c9, "AZURE_FEDERATED_TOKEN_FILE", oidc_token_path)
    ELSE ctr

\* The `if azure_oidc_token:` branch of revision "params": the token is a
\* Secret, the file receives the `plaintext` attribute, and the name of the
\* last variable ends in a blank.
OidcBranchParams(ctr, azure_oidc_token, azure_client_id, azure_tenant_id) ==
    IF TokenPresent("params", azure_oidc_token)
    THEN LET oidc_token_path == "/root/.azure/oidc_token"
             c1 == with_new_file(ctr, oidc_token_path, PlaintextAttr(azure_oidc_token))
             c2 == with_secret_variable(c1, "ARM_OIDC_TOKEN", azure_oidc_token)
             c3 == with_secret_variable(c2, "AZURE_OIDC_TOKEN", azure_oidc_token)
             c4 == with_env_variable(c3, "ARM_USE_OIDC", "true")
             c5 == with_env_variable(c4, "AZURE_USE_OIDC", "true")
             c6 == with_env_variable(c5, "ARM_CLIENT_ID", azure_client_id)
             c7 == with_env_variable(c6, "AZURE_CLIENT_ID", azure_client_id)
             c8 == with_env_variable(c7, "ARM_TENANT_ID", azure_tenant_id)
             c9 == with_env_variable(c8, "AZURE_TENANT_ID", azure_tenant_id)
         IN  with_env_variable(c9, "AZURE_FEDERATED_TOKEN_FILE ", oidc_token_path)
    ELSE ctr

\* A tail that logs in first and sets the passphrase afterwards.
LoginTailFields_LoginFirst(ctr, config_passphrase, blob_address) ==
    with_secret_variable(with_exec(ctr, <<"pulumi", "login", blob_address>>),
                         "PULUMI_CONFIG_PASSPHRASE", config_passphrase)

\* The tail of pulumi_az_base in revision "fields": passphrase, then login.
LoginTailFields(ctr, config_passphrase, blob_address) ==
    with_exec(with_secret_variable(ctr, "PULUMI_CONFIG_PASSPHRASE", config_passphrase),
              <<"pulumi", "login", blob_address>>)

\* The tail of pulumi_az_base in revision "params": passphrase, the program
\* directory, the working directory, then login.
LoginTailParams(ctr, config_passphrase, filtered_source, blob_address) ==
    LET c1 == with_secret_variable(ctr, "PULUMI_CONFIG_PASSPHRASE", config_passphrase)
        c2 == with_directory(c1, "/infra", filtered_source)
        c3 == with_workdir(c2, "/infra")
    IN  with_exec(c3, <<"pulumi", "login", blob_address>>)

\* Pulumi.pulumi_az_base of revision "fields": the backend address is read
\* from the fields of the object.
pulumi_az_base_fields(self, a) ==
    LET blob_address == BlobAddress(self.container_name, self.storage_account_name)
        c0 == build_container(self, a.infrastructure_path)
        c1 == CliBranch(c0, a.azure_cli_path)
        c2 == OidcBranchFields(c1, a.azure_oidc_token, a.azure_client_id, a.azure_tenant_id)
    IN  LoginTailFields(c2, a.config_passphrase, blob_address)

\* Pulumi.pulumi_az_base of revision "params": the backend address is built
\* from the parameters.
pulumi_az_base_params(a) ==
    LET blob_address == BlobAddress(a.container_name, a.storage_account_name)
        filtered_source == without_directory(a.infrastructure_path, "venv")
        c0 == from_("pulumi/pulumi:latest")
        c1 == CliBranch(c0, a.azure_cli_path)
        c2 == OidcBranchParams(c1, a.azure_oidc_token, a.azure_client_id, a.azure_tenant_id)
    IN  LoginTailParams(c2, a.config_passphrase, filtered_source, blob_address)

pulumi_az_base(revision, self, a) ==
    IF revision = "fields" THEN pulumi_az_base_fields(self, a)
    ELSE pulumi_az_base_params(a)

----------------------------------------------------------------------------
(* Inputs.                                                                 *)

StackNames == {"dev", "Dev"}

\* (container_name, storage_account_name) pairs of the state storage.
StorageSettings == {<<"state", "acct">>, <<"tfstate", "acct">>}

BlobAddresses == {BlobAddress(s[1], s[2]) : s \in StorageSettings}

\* An Azure CLI configuration directory, and one that already holds an
\* entry named oidc_token.
CliDir == [id |-> "azure-cli", entries |-> ("azureProfile.json" :> "profile")]

CliDirWithToken ==
    [id |-> "azure-cli-2",
     entries |-> ("azureProfile.json" :> "profile" @@ "oidc_token" :> "stale")]

InfraDir ==
    [id |-> "infra", entries |-> ("Pulumi.yaml" :> "project" @@ "venv" :> "venv")]

\* The credential arguments of a call, as
\* <<azure_cli_path, azure_oidc_token, azure_client_id, azure_tenant_id>>.
AllCredentials ==
    {NoDirectory, CliDir, CliDirWithToken} \X {None, "", "tok"} \X {None, "cid"} \X {None, "tid"}

\* The arguments of a public function.
Args(stack_name, storage, cred) ==
    [storage_account_name |-> storage[2], container_name |-> storage[1],
     config_passphrase |-> "passphrase", infrastructure_path |-> InfraDir,
     stack_name |-> stack_name, azure_cli_path |-> cred[1],
     azure_oidc_token |-> cred[2], azure_client_id |-> cred[3],
     azure_tenant_id |-> cred[4]]

\* The argument tuples the invocations of the public functions draw from:
\* two stack names on one backend, with different credentials, and one of
\* the names on a second backend.
CallArgs ==
    {Args("dev", <<"state", "acct">>, <<NoDirectory, "tok", "cid", "tid">>),
     Args("Dev", <<"state", "acct">>, <<CliDir, None, None, None>>),
     Args("dev", <<"tfstate", "acct">>, <<NoDirectory, "tok", "cid", "tid">>)}

AuthArgs == {Args("dev", s, c) : s \in StorageSettings, c \in AllCredentials}

\* The fields of a Pulumi object and their defaults.
DefaultSelf ==
    [storage_account_name |-> "", container_name |-> "", stack_name |-> "",
     cache_dir |-> "/root/.cache/uv", pulumi_image |-> "pulumi/pulumi:latest"]

\* The three assignments that open preview, preview_file, up and debug_env
\* in revision "fields".
SetFields(self, a) ==
    [self EXCEPT !.storage_account_name = a.storage_account_name,
                 !.container_name = a.container_name,
                 !.stack_name = a.stack_name]

----------------------------------------------------------------------------
(* The stack resolver.                                                     *)

\* What `pulumi stack ls --json` prints for a backend holding these stacks.
StackListJson(stacks) == [text |-> "array", stacks |-> {[name |-> n] : n \in stacks}]

\* Output that is not JSON, and the JSON document `null`.
Malformed == [text |-> "malformed", stacks |-> {}]
JsonNull == [text |-> "null", stacks |-> {}]

\* A json.loads whose failure is swallowed: the listing counts as empty.
JsonLoadsError_Swallowed(stdout) == None

\* json.loads(result): the error it raises, or None.
JsonLoadsError(stdout) ==
    IF stdout.text = "malformed" THEN "JSONDecodeError" ELSE None

\* any(stack.get("name") == stack_name for stack in stacks): iterating over
\* None raises TypeError.
TestStackError(stdout) ==
    IF JsonLoadsError(stdout) # None THEN JsonLoadsError(stdout)
    ELSE IF stdout.text = "null" THEN "TypeError"
    ELSE None

\* Lower case of a stack name.
Lower(n) == IF n = "Dev" THEN "dev" ELSE n

\* A comparison that ignores case.
test_stack_IgnoreCase(stdout, stack_name) ==
    \E stack \in stdout.stacks : Lower(stack.name) = Lower(stack_name)

test_stack(stdout, stack_name) == \E stack \in stdout.stacks : stack.name = stack_name

\* The name the resolver works with: the field of the object in revision
\* "fields", the parameter in revision "params".
ResolverName(revision, self, a) ==
    IF revision = "fields" THEN self.stack_name ELSE a.stack_name

\* The command create_or_select_stack appends to ctr.
StackCommand(exists, stack_name) ==
    IF ~exists THEN <<"pulumi", "stack", "init", stack_name>>
    ELSE <<"pulumi", "stack", "select", stack_name>>

\* The last step of each public function.  debug_env opens a terminal.
TerminalCommand(op) ==
    CASE op = "preview" -> <<"pulumi", "preview">>
      [] op = "preview_file" -> <<"/bin/sh", "-c", "pulumi preview > plan.json 2>&1">>
      [] op = "up" -> <<"pulumi", "up", "-f">>
      [] op = "debug_env" -> <<"terminal">>

\* The error the caller of a public function sees when e is raised inside.
\* Revision "fields" wraps it in preview, preview_file and up.
Raised(revision, op, e) ==
    IF revision = "fields" /\ op = "preview"
    THEN [type |-> "RuntimeError", msg |-> "Error during Pulumi preview: " \o e,
          cause |-> e]
    ELSE IF revision = "fields" /\ op = "preview_file"
    THEN [type |-> "RuntimeError",
          msg |-> "Error during Pulumi preview file generation: " \o e, cause |-> e]
    ELSE IF revision = "fields" /\ op = "up"
    THEN [type |-> "RuntimeError", msg |-> "Error during Pulumi up: " \o e,
          cause |-> e]
    ELSE [type |-> e, msg |-> e, cause |-> e]

----------------------------------------------------------------------------
(* State.                                                                  *)

VARIABLES
    rev,        \* the revision of the module that is loaded
    self,       \* the fields of the Pulumi object the tasks share
    backend,    \* the state storage: blob address -> names of its stacks
    inv,        \* task -> the invocation it runs
    calls,      \* number of invocations started so far
    initialized,\* <<blob address, stack name>> of every `stack init` that succeeded
    authIn,     \* arguments handed to the authentication context builder
    authOut     \* <<>>, or <<the container the builder returned>>

vars == <<rev, self, backend, inv, calls, initialized, authIn, authOut>>

Idle ==
    [pc |-> "idle", op |-> None, a |-> Args("dev", <<"state", "acct">>,
                                           <<NoDirectory, None, None, None>>),
     ctr |-> from_(None), chain |-> <<>>, next |-> 1,
     loggedIn |-> None, stdout |-> JsonNull, name |-> None,
     err |-> [type |-> None, msg |-> None, cause |-> None],
     log |-> <<>>, overlapped |-> FALSE, afterInit |-> FALSE]

\* The exec steps the runtime still has to run for the awaited pipeline.
Pending(i) == i.next <= Len(i.chain)

\* The first step of `chain` that has not yet run in the invocation: the
\* steps before it are not run again.
FirstNew(chain, log) ==
    LET ran == {n \in 0..Len(chain) :
                  \A k \in 1..n : \E j \in 1..Len(log) :
                      log[j].args = chain[k].args /\ log[j].ok}
    IN  1 + CHOOSE n \in ran : \A m \in ran : m <= n

\* Python awaits the pipeline of container c.
Await(i, pc, c) ==
    [i EXCEPT !.pc = pc, !.chain = c.execs, !.next = FirstNew(c.execs, i.log)]

Running(t) == inv[t].pc \in {"test_stack", "stack", "terminal"}

Finished(t) == inv[t].pc \in {"returned", "raised"}

\* A return or raise hands control to the caller at once: nothing else runs
\* until the caller has taken the result.
Quiet == \A t \in Tasks : ~Finished(t)

\* The state storage before the first invocation: no stacks at all, or the
\* stack "Dev" in the first backend.
InitialBackends ==
    {[b \in BlobAddresses |-> {}],
     [b \in BlobAddresses |-> IF b = BlobAddress("state", "acct") THEN {"Dev"} ELSE {}]}

Init ==
    /\ rev \in Revisions
    /\ self = DefaultSelf
    /\ backend \in InitialBackends
    /\ inv = [t \in Tasks |-> Idle]
    /\ calls = 0
    /\ initialized = {}
    /\ authIn = Args("dev", <<"state", "acct">>, <<NoDirectory, None, None, None>>)
    /\ authOut = <<>>

----------------------------------------------------------------------------
(* The public functions: everything up to the first suspension.  The       *)
(* fields are assigned (revision "fields"), pulumi_az_base builds the      *)
(* container, and test_stack awaits the stdout of `pulumi stack ls`.       *)

Invoke(t, op, a) ==
    /\ Quiet /\ calls < MaxCalls
    /\ inv[t].pc = "idle"
    /\ t = "t1" \/ inv["t1"].pc # "idle"
    /\ LET self1 == IF rev = "fields" THEN SetFields(self, a) ELSE self
           ctr == pulumi_az_base(rev, self1, a)
           probe == with_exec(ctr, <<"pulumi", "stack", "ls", "--json">>)
           fresh == [Idle EXCEPT !.op = op, !.a = a, !.ctr = ctr,
                                 !.overlapped = \E u \in Tasks \ {t} : Running(u),
                                 !.afterInit =
                                     <<BlobAddress(a.container_name, a.storage_account_name),
                                       a.stack_name>> \in initialized]
       IN  /\ self' = self1
           /\ inv' = [u \in Tasks |->
                        IF u = t THEN Await(fresh, "test_stack", probe)
                        ELSE IF Running(u) THEN [inv[u] EXCEPT !.overlapped = TRUE]
                        ELSE inv[u]]
    /\ calls' = calls + 1
    /\ UNCHANGED <<rev, backend, initialized, authIn, authOut>>

preview(t) == \E a \in CallArgs : Invoke(t, "preview", a)

\* Only revision "fields" has preview_file.
preview_file(t) == rev = "fields" /\ \E a \in CallArgs : Invoke(t, "preview_file", a)

up(t) == \E a \in CallArgs : Invoke(t, "up", a)

debug_env(t) == \E a \in CallArgs : Invoke(t, "debug_env", a)

----------------------------------------------------------------------------
(* The runtime runs the exec steps of the awaited pipeline, one at a time. *)

\* What an exec step runs.
Kind(e) ==
    IF e.args[1] # "pulumi" THEN "other"
    ELSE IF e.args[2] = "stack" THEN e.args[3]
    ELSE e.args[2]

Step(t) == inv[t].chain[inv[t].next]

\* The step ended with exit status 0.
Ran(i, e) ==
    [i EXCEPT !.next = @ + 1,
              !.log = Append(@, [args |-> e.args, ok |-> TRUE])]

\* A failure that is recorded and then ignored: the pipeline goes on with
\* its next step.
Failed_Ignored(i, e) ==
    [i EXCEPT !.next = @ + 1,
              !.log = Append(@, [args |-> e.args, ok |-> FALSE])]

\* The step failed: the await raises, and the public function passes the
\* error on to its caller.
Failed(i, e) ==
    [i EXCEPT !.pc = "raised", !.err = Raised(rev, i.op, "ExecError"),
              !.log = Append(@, [args |-> e.args, ok |-> FALSE])]

\* Any step may fail (non-zero exit status, transport failure).
ExecFails(t) ==
    /\ Quiet /\ Running(t) /\ Pending(inv[t])
    /\ inv' = [inv EXCEPT ![t] = Failed(@, Step(t))]
    /\ UNCHANGED <<rev, self, backend, calls, initialized, authIn, authOut>>

\* pulumi login <backend-url>
ExecLogin(t) ==
    /\ Quiet /\ Running(t) /\ Pending(inv[t]) /\ Kind(Step(t)) = "login"
    /\ inv' = [inv EXCEPT ![t] = [Ran(@, Step(t)) EXCEPT !.loggedIn = Step(t).args[3]]]
    /\ UNCHANGED <<rev, self, backend, calls, initialized, authIn, authOut>>

\* A listing that is remembered instead of queried: the answer is the empty
\* listing whatever the backend holds.
ExecStackLs_Remembered(t) ==
    /\ Quiet /\ Running(t) /\ Pending(inv[t]) /\ Kind(Step(t)) = "ls"
    /\ inv' = [inv EXCEPT ![t] = [Ran(@, Step(t)) EXCEPT !.stdout = StackListJson({})]]
    /\ UNCHANGED <<rev, self, backend, calls, initialized, authIn, authOut>>

\* pulumi stack ls --json: the stacks of the backend logged in to, or output
\* that is not a JSON array.
ExecStackLs(t) ==
    /\ Quiet /\ Running(t) /\ Pending(inv[t]) /\ Kind(Step(t)) = "ls"
    /\ inv[t].loggedIn \in BlobAddresses
    /\ \E out \in {StackListJson(backend[inv[t].loggedIn]), Malformed, JsonNull} :
         inv' = [inv EXCEPT ![t] = [Ran(@, Step(t)) EXCEPT !.stdout = out]]
    /\ UNCHANGED <<rev, self, backend, calls, initialized, authIn, authOut>>

\* pulumi stack init <name>: succeeds only for a stack the backend lacks.
ExecStackInit(t) ==
    /\ Quiet /\ Running(t) /\ Pending(inv[t]) /\ Kind(Step(t)) = "init"
    /\ inv[t].loggedIn \in BlobAddresses
    /\ Step(t).args[4] \notin backend[inv[t].loggedIn]
    /\ backend' = [backend EXCEPT ![inv[t].loggedIn] = @ \cup {Step(t).args[4]}]
    /\ initialized' = initialized \cup {<<inv[t].loggedIn, Step(t).args[4]>>}
    /\ inv' = [inv EXCEPT ![t] = Ran(@, Step(t))]
    /\ UNCHANGED <<rev, self, calls, authIn, authOut>>

\* pulumi stack select <name>: succeeds only for a stack the backend holds.
ExecStackSelect(t) ==
    /\ Quiet /\ Running(t) /\ Pending(inv[t]) /\ Kind(Step(t)) = "select"
    /\ inv[t].loggedIn \in BlobAddresses
    /\ Step(t).args[4] \in backend[inv[t].loggedIn]
    /\ inv' = [inv EXCEPT ![t] = Ran(@, Step(t))]
    /\ UNCHANGED <<rev, self, backend, calls, initialized, authIn, authOut>>

\* pip install, pulumi install, pulumi preview, pulumi up, the terminal.
ExecOther(t) ==
    /\ Quiet /\ Running(t) /\ Pending(inv[t])
    /\ Kind(Step(t)) \notin {"login", "ls", "init", "select"}
    /\ inv' = [inv EXCEPT ![t] = Ran(@, Step(t))]
    /\ UNCHANGED <<rev, self, backend, calls, initialized, authIn, authOut>>

----------------------------------------------------------------------------
(* Python resumes when the awaited pipeline has run.                       *)

\* A resolver that keeps the container the listing ran on and appends init
\* or select to it.
ResumeTestStack_OnProbe(t) ==
    /\ Quiet /\ inv[t].pc = "test_stack" /\ ~Pending(inv[t])
    /\ LET i == inv[t]
           e == TestStackError(i.stdout)
           stack_name == ResolverName(rev, self, i.a)
           exists == test_stack(i.stdout, stack_name)
           probe == with_exec(i.ctr, <<"pulumi", "stack", "ls", "--json">>)
           ctr == with_exec(probe, StackCommand(exists, stack_name))
       IN  inv' = [inv EXCEPT ![t] =
                     IF e # None
                     THEN [i EXCEPT !.pc = "raised", !.err = Raised(rev, i.op, e)]
                     ELSE [Await(i, "stack", ctr) EXCEPT !.ctr = ctr, !.name = stack_name]]
    /\ UNCHANGED <<rev, self, backend, calls, initialized, authIn, authOut>>

\* test_stack after its await, and create_or_select_stack up to its await:
\* the output is parsed and searched, and init or select is appended to ctr.
ResumeTestStack(t) ==
    /\ Quiet /\ inv[t].pc = "test_stack" /\ ~Pending(inv[t])
    /\ LET i == inv[t]
           e == TestStackError(i.stdout)
           stack_name == ResolverName(rev, self, i.a)
           exists == test_stack(i.stdout, stack_name)
           ctr == with_exec(i.ctr, StackCommand(exists, stack_name))
       IN  inv' = [inv EXCEPT ![t] =
                     IF e # None
                     THEN [i EXCEPT !.pc = "raised", !.err = Raised(rev, i.op, e)]
                     ELSE [Await(i, "stack", ctr) EXCEPT !.ctr = ctr, !.name = stack_name]]
    /\ UNCHANGED <<rev, self, backend, calls, initialized, authIn, authOut>>

\* The last step appended to the container the resolver started from, so
\* that the init or select step is not part of the pipeline.
ResumeStack_OnAuthContext(t) ==
    /\ Quiet /\ inv[t].pc = "stack" /\ ~Pending(inv[t])
    /\ LET i == inv[t]
           before == [i.ctr EXCEPT !.execs = SubSeq(@, 1, Len(@) - 1)]
           ctr == with_exec(before, TerminalCommand(i.op))
       IN  inv' = [inv EXCEPT ![t] = [Await(i, "terminal", ctr) EXCEPT !.ctr = ctr]]
    /\ UNCHANGED <<rev, self, backend, calls, initialized, authIn, authOut>>

\* create_or_select_stack returns the container; the public function
\* appends its last step and awaits it.
ResumeStack(t) ==
    /\ Quiet /\ inv[t].pc = "stack" /\ ~Pending(inv[t])
    /\ LET i == inv[t]
           ctr == with_exec(i.ctr, TerminalCommand(i.op))
       IN  inv' = [inv EXCEPT ![t] = [Await(i, "terminal", ctr) EXCEPT !.ctr = ctr]]
    /\ UNCHANGED <<rev, self, backend, calls, initialized, authIn, authOut>>

\* The public function returns.
Return(t) ==
    /\ Quiet /\ inv[t].pc = "terminal" /\ ~Pending(inv[t])
    /\ inv' = [inv EXCEPT ![t].pc = "returned"]
    /\ UNCHANGED <<rev, self, backend, calls, initialized, authIn, authOut>>

\* The caller takes the result or the error; the task is free again.
Collect(t) ==
    /\ Finished(t)
    /\ inv' = [inv EXCEPT ![t] = Idle]
    /\ UNCHANGED <<rev, self, backend, calls, initialized, authIn, authOut>>

Next ==
    \E t \in Tasks :
        \/ preview(t) \/ preview_file(t) \/ up(t) \/ debug_env(t)
        \/ ExecFails(t) \/ ExecLogin(t) \/ ExecStackLs(t) \/ ExecStackInit(t)
        \/ ExecStackSelect(t) \/ ExecOther(t)
        \/ ResumeTestStack(t) \/ ResumeStack(t) \/ Return(t) \/ Collect(t)

Spec == Init /\ [][Next]_vars

----------------------------------------------------------------------------
(* The authentication context builder on its own: one call of              *)
(* pulumi_az_base for each combination of arguments.                       *)

AuthInit ==
    /\ rev \in Revisions
    /\ self = DefaultSelf
    /\ backend = [b \in BlobAddresses |-> {}]
    /\ inv = [t \in Tasks |-> Idle]
    /\ calls = 0
    /\ initialized = {}
    /\ authIn \in AuthArgs
    /\ authOut = <<>>

BuildAuth ==
    /\ authOut = <<>>
    /\ LET self1 == IF rev = "fields" THEN SetFields(self, authIn) ELSE self
       IN  /\ self' = self1
           /\ authOut' = <<pulumi_az_base(rev, self1, authIn)>>
    /\ UNCHANGED <<rev, backend, inv, calls, initialized, authIn>>

NextAuth == BuildAuth

SpecAuth == AuthInit /\ [][NextAuth]_vars

----------------------------------------------------------------------------
(* Properties of the stack resolver.                                       *)

\* The places of the init and select steps in a pipeline.
StackExecs(chain) == {k \in 1..Len(chain) : Kind(chain[k]) \in {"init", "select"}}

\* The entries of a log that ran init or select.
StackRuns(log) == {k \in 1..Len(log) : Kind(log[k]) \in {"init", "select"}}

\* The resolver of the invocation has chosen its command.
Decided(i) == i.name # None

\* C1: the resolver issues exactly one stack command, `stack select <name>`
\* if and only if a record of the listing has exactly the requested name,
\* `stack init <name>` otherwise; before it has parsed the listing it has
\* issued none.  The requested name is the stack_name parameter (revision
\* "params") or the stack_name field when the resolver resumes (revision
\* "fields"), which is the caller's argument whenever no other invocation
\* ran meanwhile.
C1_InitOrSelect ==
    \A t \in Tasks :
        LET i == inv[t]
            ks == StackExecs(i.chain)
        IN  /\ Cardinality(StackRuns(i.log)) <= 1
            /\ ~Decided(i) => ks = {} /\ StackRuns(i.log) = {}
            /\ Decided(i) =>
                 /\ Cardinality(ks) = 1
                 /\ \A k \in ks :
                      i.chain[k].args =
                        <<"pulumi", "stack",
                          IF \E r \in i.stdout.stacks : r.name = i.name
                          THEN "select" ELSE "init",
                          i.name>>
                 /\ (rev = "params" \/ ~i.overlapped) => i.name = i.a.stack_name

\* C1 witness: the listing holds only "Dev", "dev" is requested, and
\* `stack init dev` has run.
C1_Witness ==
    \E t \in Tasks :
        /\ inv[t].stdout = StackListJson({"Dev"})
        /\ inv[t].a.stack_name = "dev"
        /\ \E k \in 1..Len(inv[t].log) :
             inv[t].log[k] = [args |-> <<"pulumi", "stack", "init", "dev">>, ok |-> TRUE]

\* C2: when the listing is not JSON the invocation ends in an error caused
\* by the parse, and neither init nor select is issued.
C2_MalformedListing ==
    \A t \in Tasks :
        LET i == inv[t]
        IN  i.stdout.text = "malformed" =>
              /\ i.pc \in {"test_stack", "raised"}
              /\ ~Decided(i)
              /\ StackExecs(i.chain) = {} /\ StackRuns(i.log) = {}
              /\ i.pc = "raised" => i.err.cause = "JSONDecodeError"

\* C2 witness: an invocation has raised on a malformed listing.
C2_Witness ==
    \E t \in Tasks : inv[t].pc = "raised" /\ inv[t].stdout.text = "malformed"

\* The backend address built from the invocation's own arguments.
OwnAddress(i) == BlobAddress(i.a.container_name, i.a.storage_account_name)

\* C3: every invocation compares the listing with, and issues init or
\* select for, the stack name it was called with, and logs in to the backend
\* address built from its own storage settings, whatever other invocations
\* run meanwhile.
C3_OwnArguments ==
    \A t \in Tasks :
        LET i == inv[t]
        IN  /\ Decided(i) => i.name = i.a.stack_name
            /\ \A k \in StackExecs(i.chain) : i.chain[k].args[4] = i.a.stack_name
            /\ i.loggedIn # None => i.loggedIn = OwnAddress(i)

\* C8: a resolver decides only after a listing queried in its own
\* invocation, and a resolution that starts after `stack init` of the same
\* name succeeded on the same backend issues select, not init (in revision
\* "fields": when no other invocation ran meanwhile).
C8_SecondResolutionSelects ==
    \A t \in Tasks :
        LET i == inv[t]
        IN  /\ Decided(i) =>
                 \E k \in 1..Len(i.log) : Kind(i.log[k]) = "ls" /\ i.log[k].ok
            /\ (i.afterInit /\ Decided(i) /\ (rev = "params" \/ ~i.overlapped)) =>
                 \A k \in StackExecs(i.chain) :
                     i.chain[k].args = <<"pulumi", "stack", "select", i.a.stack_name>>

\* C8 witness: an invocation that started after a successful init of its
\* stack on its backend has run `stack select`.
C8_Witness ==
    \E t \in Tasks :
        /\ inv[t].afterInit
        /\ \E k \in 1..Len(inv[t].log) :
             inv[t].log[k] =
               [args |-> <<"pulumi", "stack", "select", inv[t].a.stack_name>>, ok |-> TRUE]

\* The text that opens the message of the error raised by an operation.
ErrorPrefix(op) ==
    CASE op = "preview" -> "Error during Pulumi preview: "
      [] op = "preview_file" -> "Error during Pulumi preview file generation: "
      [] op = "up" -> "Error during Pulumi up: "
      [] OTHER -> ""

\* C9: a failed step is the last step of its invocation, which has raised;
\* no step runs twice; and preview, preview_file and up raise a RuntimeError
\* whose message names the operation.
C9_FailureSurfaces ==
    \A t \in Tasks :
        LET i == inv[t]
        IN  /\ \A k \in 1..Len(i.log) :
                 ~i.log[k].ok => k = Len(i.log) /\ i.pc = "raised"
            /\ \A j, k \in 1..Len(i.log) : i.log[j].args = i.log[k].args => j = k
            /\ (i.pc = "raised" /\ i.op \in {"preview", "preview_file", "up"}) =>
                 /\ i.err.type = "RuntimeError"
                 /\ i.err.msg = ErrorPrefix(i.op) \o i.err.cause

\* The place of a step in the order of an invocation.
Phase(e, op) ==
    CASE Kind(e) = "login" -> 1
      [] Kind(e) = "ls" -> 2
      [] Kind(e) \in {"init", "select"} -> 3
      [] e.args = TerminalCommand(op) -> 4
      [] OTHER -> 0

\* The variables the credentials of an invocation must put in the context.
AuthVars(a) ==
    {"PULUMI_CONFIG_PASSPHRASE"}
      \cup (IF CliPresent(a.azure_cli_path) THEN {"AZURE_AUTH"} ELSE {})
      \cup (IF a.azure_oidc_token \notin {None, ""}
            THEN {"ARM_OIDC_TOKEN", "ARM_USE_OIDC", "ARM_CLIENT_ID", "ARM_TENANT_ID"}
            ELSE {})

\* C10: within an invocation the steps run in the order login (with the
\* variables of the caller's credentials set, at the caller's backend
\* address), list stacks, init or select, last step; each of them once and
\* each only after the one before has ended successfully; and the last step
\* is appended to the pipeline that ends in login and init or select.
C10_StepOrder ==
    \A t \in Tasks :
        LET i == inv[t]
            n == Len(i.chain)
        IN  /\ \A k \in 1..(Len(i.log) - 1) :
                 LET p == Phase(i.log[k], i.op)
                     q == Phase(i.log[k + 1], i.op)
                 IN  i.log[k].ok /\ p <= q /\ (q > 0 => p < q)
            /\ \A k \in 1..n :
                 Kind(i.chain[k]) = "login" =>
                   /\ AuthVars(i.a) \subseteq i.chain[k].vars
                   /\ i.chain[k].args[3] = OwnAddress(i)
            /\ i.pc = "stack" =>
                 /\ \E k \in 1..Len(i.log) : Phase(i.log[k], i.op) = 2 /\ i.log[k].ok
                 /\ n >= 2 /\ Phase(i.chain[n - 1], i.op) = 1 /\ Phase(i.chain[n], i.op) = 3
            /\ i.pc \in {"terminal", "returned"} =>
                 /\ \E k \in 1..Len(i.log) : Phase(i.log[k], i.op) = 3 /\ i.log[k].ok
                 /\ n >= 3 /\ Phase(i.chain[n - 2], i.op) = 1
                 /\ Phase(i.chain[n - 1], i.op) = 3 /\ Phase(i.chain[n], i.op) = 4
            /\ i.pc = "returned" =>
                 \E k \in 1..Len(i.log) : Phase(i.log[k], i.op) = 4 /\ i.log[k].ok

\* C10 witness: an invocation has returned after login, listing, init or
\* select and its last step, in this order.
C10_Witness ==
    \E t \in Tasks :
        LET i == inv[t]
            m == Len(i.log)
        IN  /\ i.pc = "returned" /\ m >= 4
            /\ Phase(i.log[m - 3], i.op) = 1 /\ Phase(i.log[m - 2], i.op) = 2
            /\ Phase(i.log[m - 1], i.op) = 3 /\ Phase(i.log[m], i.op) = 4

----------------------------------------------------------------------------
(* Properties of the authentication context builder.                       *)

Built == authOut # <<>>

\* The container variable `name` is set, plainly or as a secret, to `value`.
HasVar(ctr, name, value) ==
    \/ name \in DOMAIN ctr.env /\ ctr.env[name] = value
    \/ name \in DOMAIN ctr.secrets /\ ctr.secrets[name] = value

HasFile(ctr, path, contents) == path \in DOMAIN ctr.files /\ ctr.files[path] = contents

OidcVarNames ==
    {"ARM_OIDC_TOKEN", "AZURE_OIDC_TOKEN", "ARM_USE_OIDC", "AZURE_USE_OIDC",
     "ARM_CLIENT_ID", "AZURE_CLIENT_ID", "ARM_TENANT_ID", "AZURE_TENANT_ID",
     "AZURE_FEDERATED_TOKEN_FILE"}

\* The files a directory written at path contributes.
FilesOf(path, dir) == {path \o "/" \o e : e \in DOMAIN dir.entries}

\* C4: with a token, a client id and a tenant id and no CLI directory, the
\* returned context has every OIDC variable with the value supplied and the
\* token file at /root/.azure/oidc_token holding the token.
C4_OidcOnly ==
    (/\ Built
     /\ ~CliPresent(authIn.azure_cli_path)
     /\ authIn.azure_oidc_token \notin {None, ""}
     /\ authIn.azure_client_id # None /\ authIn.azure_tenant_id # None) =>
        LET c == authOut[1]
        IN  /\ HasVar(c, "ARM_OIDC_TOKEN", authIn.azure_oidc_token)
            /\ HasVar(c, "AZURE_OIDC_TOKEN", authIn.azure_oidc_token)
            /\ HasVar(c, "ARM_USE_OIDC", "true")
            /\ HasVar(c, "AZURE_USE_OIDC", "true")
            /\ HasVar(c, "ARM_CLIENT_ID", authIn.azure_client_id)
            /\ HasVar(c, "AZURE_CLIENT_ID", authIn.azure_client_id)
            /\ HasVar(c, "ARM_TENANT_ID", authIn.azure_tenant_id)
            /\ HasVar(c, "AZURE_TENANT_ID", authIn.azure_tenant_id)
            /\ HasVar(c, "AZURE_FEDERATED_TOKEN_FILE", "/root/.azure/oidc_token")
            /\ HasFile(c, "/root/.azure/oidc_token", authIn.azure_oidc_token)

\* C5: with a CLI directory and no token, the returned context has the
\* directory written at /root/.azure with its entries, AZURE_AUTH=az, none
\* of the OIDC variables, and no file besides the entries of the CLI
\* directory and of the program directory (so no token file was written).
C5_CliOnly ==
    (Built /\ CliPresent(authIn.azure_cli_path) /\ authIn.azure_oidc_token = None) =>
        LET c == authOut[1]
            dir == authIn.azure_cli_path
        IN  /\ "/root/.azure" \in DOMAIN c.dirs /\ c.dirs["/root/.azure"] = dir.id
            /\ \A e \in DOMAIN dir.entries :
                 HasFile(c, "/root/.azure" \o "/" \o e, dir.entries[e])
            /\ HasVar(c, "AZURE_AUTH", "az")
            /\ VarNames(c) \cap (OidcVarNames \cup {"AZURE_FEDERATED_TOKEN_FILE "}) = {}
            /\ DOMAIN c.files =
                 FilesOf("/root/.azure", dir)
                   \cup FilesOf("/infra", without_directory(authIn.infrastructure_path, "venv"))

\* C5 witness: the builder has run with a CLI directory and no token.
C5_Witness ==
    /\ Built
    /\ authIn.azure_cli_path = CliDir /\ authIn.azure_oidc_token = None
    /\ HasVar(authOut[1], "AZURE_AUTH", "az")

\* Everything container c carries is carried by container d with the same
\* value.
Within(c, d) ==
    /\ \A n \in DOMAIN c.env : n \in DOMAIN d.env /\ d.env[n] = c.env[n]
    /\ \A n \in DOMAIN c.secrets : n \in DOMAIN d.secrets /\ d.secrets[n] = c.secrets[n]
    /\ \A f \in DOMAIN c.files : f \in DOMAIN d.files /\ d.files[f] = c.files[f]
    /\ \A p \in DOMAIN c.dirs : p \in DOMAIN d.dirs /\ d.dirs[p] = c.dirs[p]

\* C6: with a CLI directory and a token, the returned context carries every
\* directory, file and variable that the builder produces with the CLI
\* directory alone and with the OIDC arguments alone, with the same value.
C6_UnionOfBranches ==
    (/\ Built
     /\ CliPresent(authIn.azure_cli_path)
     /\ TokenPresent(rev, authIn.azure_oidc_token)) =>
        LET cliOnly == pulumi_az_base(rev, self, [authIn EXCEPT !.azure_oidc_token = None])
            oidcOnly == pulumi_az_base(rev, self, [authIn EXCEPT !.azure_cli_path = NoDirectory])
        IN  Within(cliOnly, authOut[1]) /\ Within(oidcOnly, authOut[1])

\* C7: whatever credentials are present, the returned context carries the
\* secret variable PULUMI_CONFIG_PASSPHRASE, and its single `pulumi login`
\* step, the last step of the pipeline, runs with that variable set.
C7_PassphraseBeforeLogin ==
    Built =>
        LET c == authOut[1]
            n == Len(c.execs)
        IN  /\ "PULUMI_CONFIG_PASSPHRASE" \in DOMAIN c.secrets
            /\ c.secrets["PULUMI_CONFIG_PASSPHRASE"] = authIn.config_passphrase
            /\ n >= 1 /\ Kind(c.execs[n]) = "login"
            /\ \A k \in 1..n :
                 Kind(c.execs[k]) = "login" =>
                   k = n /\ "PULUMI_CONFIG_PASSPHRASE" \in c.execs[k].vars

\* C7 witness: the builder has run without any credentials and the context
\* carries the passphrase.
C7_Witness ==
    /\ Built
    /\ ~CliPresent(authIn.azure_cli_path) /\ authIn.azure_oidc_token = None
    /\ "PULUMI_CONFIG_PASSPHRASE" \in DOMAIN authOut[1].secrets

----------------------------------------------------------------------------
(* Contexts as values.                                                     *)

\* The context the authentication builder returned to the invocation.
AuthContext(i) == pulumi_az_base(rev, SetFields(DefaultSelf, i.a), i.a)

\* C11: when the listing has run, the context it was derived from is still
\* the context the builder returned; the context create_or_select_stack
\* returns is that context plus the one init or select step, and the public
\* function appends its last step to it in turn.  No context of an
\* invocation ever holds the `stack ls` step: that step is only in the
\* pipeline of the discarded probe.
C11_ContextsAreValues ==
    \A t \in Tasks :
        LET i == inv[t]
            ctx == AuthContext(i)
        IN  /\ i.pc = "test_stack" =>
                 /\ ~Pending(i) => i.ctr = ctx
                 /\ i.chain = Append(i.ctr.execs,
                                     [args |-> <<"pulumi", "stack", "ls", "--json">>,
                                      vars |-> VarNames(i.ctr), workdir |-> i.ctr.workdir])
            /\ i.pc = "stack" =>
                 /\ ~Pending(i) =>
                      \E cmd \in {"init", "select"} :
                         i.ctr = with_exec(ctx, <<"pulumi", "stack", cmd, i.name>>)
                 /\ i.chain = i.ctr.execs
            /\ i.pc \in {"terminal", "returned"} =>
                 /\ ~Pending(i) =>
                      \E cmd \in {"init", "select"} :
                         i.ctr = with_exec(with_exec(ctx, <<"pulumi", "stack", cmd, i.name>>),
                                           TerminalCommand(i.op))
                 /\ i.chain = i.ctr.execs
            /\ \A k \in 1..Len(i.ctr.execs) : Kind(i.ctr.execs[k]) # "ls"

\* C11 witness: the listing has run, init or select has run after it, and
\* the context of the invocation holds no `stack ls` step.
C11_Witness ==
    \E t \in Tasks :
        LET i == inv[t]
        IN  /\ i.pc = "stack" /\ ~Pending(i)
            /\ \E k \in 1..Len(i.log) : Kind(i.log[k]) = "ls" /\ i.log[k].ok
            /\ i.ctr.execs = Append(AuthContext(i).execs, i.ctr.execs[Len(i.ctr.execs)])

----------------------------------------------------------------------------
(* Client id and tenant id in the token branch.                            *)

ClientIdVarNames == {"ARM_CLIENT_ID", "AZURE_CLIENT_ID"}

TenantIdVarNames == {"ARM_TENANT_ID", "AZURE_TENANT_ID"}

\* C12: when the token is present, the two client-id variables carry the
\* client id that was passed and the two tenant-id variables the tenant id
\* that was passed, an absent value (None) included; when the token is
\* absent none of the four variables is set, whatever client id and tenant
\* id were passed.
C12_IdsFollowToken ==
    Built =>
        LET c == authOut[1]
        IN  IF TokenPresent(rev, authIn.azure_oidc_token)
            THEN /\ \A n \in ClientIdVarNames :
                      n \in DOMAIN c.env /\ c.env[n] = authIn.azure_client_id
                 /\ \A n \in TenantIdVarNames :
                      n \in DOMAIN c.env /\ c.env[n] = authIn.azure_tenant_id
            ELSE VarNames(c) \cap (ClientIdVarNames \cup TenantIdVarNames) = {}

\* C12 witness: the builder has run with a token and without a client id,
\* and the client-id variable is set to the absent value.
C12_Witness ==
    /\ Built
    /\ TokenPresent(rev, authIn.azure_oidc_token)
    /\ authIn.azure_client_id = None /\ authIn.azure_tenant_id = "tid"
    /\ "ARM_CLIENT_ID" \in DOMAIN authOut[1].env
    /\ authOut[1].env["ARM_CLIENT_ID"] = None

\* The builder has run without a token and with both ids, and no id
\* variable is set.
C12_WitnessNoToken ==
    /\ Built
    /\ ~TokenPresent(rev, authIn.azure_oidc_token)
    /\ authIn.azure_client_id = "cid" /\ authIn.azure_tenant_id = "tid"
    /\ VarNames(authOut[1]) \cap (ClientIdVarNames \cup TenantIdVarNames) = {}

----------------------------------------------------------------------------
(* The last step and the steps before it.                                  *)

\* The invocation has handed its last step to the runtime, or has run it.
TerminalIssued(i) ==
    LET last == TerminalCommand(i.op)
    IN  \/ \E k \in 1..Len(i.chain) : i.chain[k].args = last
        \/ \E k \in 1..Len(i.log) : i.log[k].args = last

\* C13: an invocation issues its last step (`pulumi preview`, `pulumi
\* preview > plan.json`, `pulumi up -f` or the terminal) only when its own
\* login, its own listing and its own init or select have ended
\* successfully, in this order; and an invocation in which the login, the
\* listing or init/select failed issues no last step.
C13_TerminalAfterSetup ==
    \A t \in Tasks :
        LET i == inv[t]
            m == Len(i.log)
            issued == TerminalIssued(i)
        IN  /\ issued =>
                 \E k \in 1..(m - 2) :
                    /\ Kind(i.log[k]) = "login" /\ i.log[k].ok
                    /\ Kind(i.log[k + 1]) = "ls" /\ i.log[k + 1].ok
                    /\ Kind(i.log[k + 2]) \in {"init", "select"} /\ i.log[k + 2].ok
                    /\ \A j \in 1..(k + 2) : i.log[j].args # TerminalCommand(i.op)
            /\ (\E k \in 1..m : ~i.log[k].ok /\ Kind(i.log[k]) \in {"login", "ls", "init", "select"}) =>
                 ~issued

\* C13 witness: login and listing have ended successfully, init or select
\* has failed, the invocation has raised and has issued no last step.
C13_Witness ==
    \E t \in Tasks :
        LET i == inv[t]
            m == Len(i.log)
        IN  /\ i.pc = "raised" /\ m >= 3
            /\ Phase(i.log[m - 2], i.op) = 1 /\ i.log[m - 2].ok
            /\ Phase(i.log[m - 1], i.op) = 2 /\ i.log[m - 1].ok
            /\ Phase(i.log[m], i.op) = 3 /\ ~i.log[m].ok
            /\ ~TerminalIssued(i)

\* An invocation has run its last step after its login, listing and init
\* or select.
C13_WitnessIssued ==
    \E t \in Tasks :
        LET i == inv[t]
        IN  /\ i.pc = "terminal" /\ TerminalIssued(i)
            /\ \E k \in 1..Len(i.log) : Phase(i.log[k], i.op) = 3 /\ i.log[k].ok

====
